---- MODULE Spec2Model ----
(***************************************************************************)
(* Model of split_document (src/doc_splitter.py): a .docx body is ordered  *)
(* into a list of elements, scanned into pages at page-break markers,      *)
(* pruned of empty pages, and written out as one Overview document plus    *)
(* one Student_N document per remaining page.                              *)
(*                                                                         *)
(* Text is a sequence of characters: "a" and "b" are visible characters,   *)
(* "s" is a space, "L" is the literal label word "Student:".  A run is a   *)
(* sequence of items: characters and "BR", a <w:br w:type="page"/>.        *)
(* A paragraph is a sequence of runs; a table is its sequence of cell      *)
(* texts in row-major order (tables are rectangular with at least one      *)
(* row).  Pages and the element list hold positions in the source body,    *)
(* which stand for the python-docx proxy objects of these blocks.          *)
(***************************************************************************)
EXTENDS Integers, Sequences, FiniteSets, TLC

VARIABLES input_file, body, dir_exists, files, pc, elements, current_table,
          bi, all_pages, current_page_idx, ei, student_count, idx, log,
          result, exc

vars == <<input_file, body, dir_exists, files, pc, elements, current_table,
          bi, all_pages, current_page_idx, ei, student_count, idx, log,
          result, exc>>

\* Longest source body (number of top-level blocks) that is explored.
MaxBody == 3

(***************************************************************************)
(* Blocks                                                                  *)
(***************************************************************************)
Para(runs) == [kind |-> "p", runs |-> runs, cells |-> <<>>]

Tbl(cells) == [kind |-> "tbl", runs |-> <<>>, cells |-> cells]

\* The block shapes source bodies are built from.
Shapes ==
  { Para(<<>>),                          \* empty paragraph
    Para(<< <<"s">> >>),                 \* whitespace only
    Para(<< <<"a">> >>),                 \* text
    Para(<< <<"BR">> >>),                \* a page break on its own
    Para(<< <<"a", "BR", "b">> >>),      \* text, page break, text
    Para(<< <<"BR", "BR">> >>),          \* two page breaks in one run
    Para(<< <<"BR">>, <<"BR">> >>),      \* two runs, a page break in each
    Tbl(<< <<>> >>),                     \* table whose only cell is empty
    Tbl(<< <<"b">> >>),                  \* table with text
    Tbl(<< <<"L">>, <<"a">> >>) }        \* table "Student:" | "a"

Bodies == UNION { [1..n -> Shapes] : n \in 0..MaxBody }

(***************************************************************************)
(* Text helpers (str.strip, Run.text, Paragraph.text)                      *)
(***************************************************************************)
RECURSIVE LStrip(_)
LStrip(t) ==
  IF t = <<>> THEN <<>>
  ELSE IF Head(t) = "s" THEN LStrip(Tail(t)) ELSE t

RECURSIVE RStrip(_)
RStrip(t) ==
  IF t = <<>> THEN <<>>
  ELSE IF t[Len(t)] = "s" THEN RStrip(SubSeq(t, 1, Len(t) - 1)) ELSE t

Strip(t) == RStrip(LStrip(t))

\* Run.text: a page break contributes no character.
RunText(run) == SelectSeq(run, LAMBDA c : c # "BR")

RECURSIVE ParaText(_)
ParaText(runs) ==
  IF runs = <<>> THEN <<>> ELSE RunText(Head(runs)) \o ParaText(Tail(runs))

\* run._element.findall('.//w:br') has a br of type 'page'
HasPageBreak(run) == \E i \in 1..Len(run) : run[i] = "BR"

(***************************************************************************)
(* doc.paragraphs and doc.tables: the body's paragraphs / tables in order  *)
(***************************************************************************)
Positions(b) == [i \in 1..Len(b) |-> i]

DocParagraphs(b) == SelectSeq(Positions(b), LAMBDA i : b[i].kind = "p")

DocTables(b) == SelectSeq(Positions(b), LAMBDA i : b[i].kind = "tbl")

Count(seq, kind) == Len(SelectSeq(seq, LAMBDA e : body[e].kind = kind))

(***************************************************************************)
(* update_status                                                           *)
(***************************************************************************)
Msg(type, msg, n) == [type |-> type, msg |-> msg, n |-> n]

(***************************************************************************)
(* get_page_content                                                        *)
(***************************************************************************)
RECURSIVE StripAll(_)
StripAll(texts) ==
  IF texts = <<>> THEN <<>>
  ELSE <<Strip(Head(texts))>> \o StripAll(Tail(texts))

RECURSIVE ContentList(_)
ContentList(page) ==
  IF page = <<>> THEN <<>>
  ELSE LET element == body[Head(page)]
       IN  (IF element.kind = "p"
              THEN <<Strip(ParaText(element.runs))>>
              ELSE StripAll(element.cells))
           \o ContentList(Tail(page))

RECURSIVE Join(_)
Join(texts) ==
  IF texts = <<>> THEN <<>>
  ELSE IF Len(texts) = 1 THEN Head(texts)
  ELSE Head(texts) \o <<"n">> \o Join(Tail(texts))

\* Variant: only paragraph text counts as content.
get_page_content_ParagraphsOnly(page) ==
  Join(SelectSeq(ContentList(SelectSeq(page, LAMBDA e : body[e].kind = "p")),
                 LAMBDA t : t # <<>>))

get_page_content(page) ==
  Join(SelectSeq(ContentList(page), LAMBDA t : t # <<>>))

(***************************************************************************)
(* Composition of an output document                                       *)
(***************************************************************************)
RECURSIVE CopyElements(_, _)
CopyElements(doc, page) ==
  IF page = <<>> THEN doc
  ELSE LET element == body[Head(page)]
           text    == ParaText(element.runs)
           doc1    == IF element.kind = "p"
                        THEN IF Strip(text) # <<>>
                               THEN Append(doc, Para(<<text>>))
                               ELSE doc
                        ELSE Append(doc, Tbl(element.cells))
       IN  CopyElements(doc1, Tail(page))

\* student_doc.add_paragraph().add_run().add_break(WD_BREAK.PAGE)
PageBreakParagraph == Para(<< <<"BR">> >>)

OverviewDoc == CopyElements(<<>>, all_pages[1])

\* Variant: a page break is appended after the student content as well.
StudentDoc_TrailingBreak(page) ==
  Append(CopyElements(Append(CopyElements(<<>>, all_pages[1]), PageBreakParagraph),
                      page),
         PageBreakParagraph)

StudentDoc(page) ==
  CopyElements(Append(CopyElements(<<>>, all_pages[1]), PageBreakParagraph), page)

OverviewName == [base |-> "Overview", n |-> 0]

\* Variant: every student document is saved under the same name.
StudentName_Fixed(count) == [base |-> "Student", n |-> 1]

\* Variant: the name is numbered from 0.
StudentName_ZeroBased(count) == [base |-> "Student", n |-> count - 1]

StudentName(count) == [base |-> "Student", n |-> count]

\* Document.save(path): the file at path is created or replaced.
Save(fs, name, doc) ==
  {f \in fs : f.name # name} \cup {[name |-> name, doc |-> doc]}

(***************************************************************************)
(* Initial states: the call split_document(input, output_directory)        *)
(***************************************************************************)
Init ==
  /\ input_file \in {"missing", "malformed", "ok"}
  /\ body \in (IF input_file = "ok" THEN Bodies ELSE {<<>>})
  /\ dir_exists \in BOOLEAN
  /\ files = {}
  /\ pc = "start"
  /\ elements = <<>>
  /\ current_table = 0
  /\ bi = 1
  /\ all_pages = <<>>
  /\ current_page_idx = 0
  /\ ei = 1
  /\ student_count = 0
  /\ idx = 1
  /\ log = <<>>
  /\ result = <<>>
  /\ exc = "none"

(***************************************************************************)
(* Actions                                                                 *)
(***************************************************************************)
\* Variant: the output directory is created before the input is verified.
CheckInput_MakeDirFirst ==
  /\ pc = "start"
  /\ dir_exists' = TRUE
  /\ IF input_file = "missing"
       THEN /\ log' = Append(log, Msg("error", "input_not_found", 0))
            /\ exc' = "FileNotFoundError"
            /\ pc' = "raised"
       ELSE /\ log' = log \o << Msg("info", "found_input", 0),
                                Msg("info", "file_size", 0) >>
            /\ exc' = exc
            /\ pc' = "mkdir"
  /\ UNCHANGED <<input_file, body, files, elements, current_table,
                 bi, all_pages, current_page_idx, ei, student_count, idx,
                 result>>

\* Lines 33-40: verify that the input file exists.
CheckInput ==
  /\ pc = "start"
  /\ IF input_file = "missing"
       THEN /\ log' = Append(log, Msg("error", "input_not_found", 0))
            /\ exc' = "FileNotFoundError"
            /\ pc' = "raised"
       ELSE /\ log' = log \o << Msg("info", "found_input", 0),
                                Msg("info", "file_size", 0) >>
            /\ exc' = exc
            /\ pc' = "mkdir"
  /\ UNCHANGED <<input_file, body, dir_exists, files, elements, current_table,
                 bi, all_pages, current_page_idx, ei, student_count, idx,
                 result>>

\* Lines 42-45: create the output directory when it is absent.
MakeDir ==
  /\ pc = "mkdir"
  /\ IF ~dir_exists
       THEN /\ dir_exists' = TRUE
            /\ log' = Append(log, Msg("info", "created_dir", 0))
       ELSE UNCHANGED <<dir_exists, log>>
  /\ pc' = "load"
  /\ UNCHANGED <<input_file, body, files, elements, current_table, bi,
                 all_pages, current_page_idx, ei, student_count, idx, result,
                 exc>>

\* Lines 47-63: load the document and initialise the scan.
Load ==
  /\ pc = "load"
  /\ IF input_file = "malformed"
       THEN /\ log' = Append(log, Msg("info", "loading", 0))
            /\ exc' = "PackageError"
            /\ pc' = "except"
            /\ UNCHANGED <<all_pages, current_page_idx, elements,
                           current_table>>
       ELSE /\ log' = log \o << Msg("info", "loading", 0),
                                Msg("info", "document_has", Len(body)),
                                Msg("info", "analyzing", 0) >>
            /\ all_pages' = << <<>> >>
            /\ current_page_idx' = 1
            /\ elements' = <<>>
            /\ current_table' = 0
            /\ exc' = exc
            /\ pc' = "order"
  /\ UNCHANGED <<input_file, body, dir_exists, files, bi, ei, student_count,
                 idx, result>>

\* Lines 66-73: one iteration of the loop over doc.element.body.
OrderElement ==
  /\ pc = "order"
  /\ bi <= Len(body)
  /\ IF body[bi].kind = "p"
       THEN LET flushed == IF current_table # 0
                             THEN Append(elements, current_table)
                             ELSE elements
            IN  /\ elements' =
                     Append(flushed, DocParagraphs(body)[Count(flushed, "p") + 1])
                /\ current_table' = 0
       ELSE /\ current_table' = DocTables(body)[Count(elements, "tbl") + 1]
            /\ elements' = elements
  /\ bi' = bi + 1
  /\ UNCHANGED <<input_file, body, dir_exists, files, pc, all_pages,
                 current_page_idx, ei, student_count, idx, log, result, exc>>

\* Lines 75-77: add the final table if one is pending.
OrderFinish ==
  /\ pc = "order"
  /\ bi > Len(body)
  /\ elements' = IF current_table # 0
                   THEN Append(elements, current_table)
                   ELSE elements
  /\ pc' = "scan"
  /\ UNCHANGED <<input_file, body, dir_exists, files, current_table, bi,
                 all_pages, current_page_idx, ei, student_count, idx, log,
                 result, exc>>

\* The runs of a paragraph in which a page break is found (lines 86-93: the
\* break statement leaves the loop over the br elements of one run).
BreakRuns(runs) == SelectSeq(runs, HasPageBreak)

\* Lines 80-93: one iteration of the loop over elements.
ScanElement ==
  /\ pc = "scan"
  /\ ei <= Len(elements)
  /\ LET element == body[elements[ei]]
         added   == [all_pages EXCEPT ![current_page_idx] =
                                         Append(@, elements[ei])]
         n       == IF element.kind = "p" THEN Len(BreakRuns(element.runs))
                                          ELSE 0
     IN  /\ all_pages' = added \o [i \in 1..n |-> <<>>]
         /\ current_page_idx' = current_page_idx + n
         /\ log' = log \o [i \in 1..n |-> Msg("info", "page_break", 0)]
  /\ ei' = ei + 1
  /\ UNCHANGED <<input_file, body, dir_exists, files, pc, elements,
                 current_table, bi, student_count, idx, result, exc>>

\* Line 95: the scan is complete.
ScanFinish ==
  /\ pc = "scan"
  /\ ei > Len(elements)
  /\ log' = Append(log, Msg("info", "split_into", Len(all_pages)))
  /\ pc' = "prune"
  /\ UNCHANGED <<input_file, body, dir_exists, files, elements, current_table,
                 bi, all_pages, current_page_idx, ei, student_count, idx,
                 result, exc>>

\* Lines 98-102: the debug messages about every page.
RECURSIVE PageMessages(_, _)
PageMessages(pages, i) ==
  IF i > Len(pages) THEN <<>>
  ELSE LET content == get_page_content(pages[i])
       IN  <<Msg("info", "content_length", i)>>
           \o (IF Len(content) > 0 THEN <<Msg("info", "preview", i)>> ELSE <<>>)
           \o PageMessages(pages, i + 1)

\* Line 105: the pages that are kept.
NonEmptyPages(pages) ==
  SelectSeq(pages, LAMBDA page : get_page_content(page) # <<>>)

\* Lines 97-111: report the pages, remove the empty ones.
Prune ==
  /\ pc = "prune"
  /\ LET kept == NonEmptyPages(all_pages)
     IN  /\ all_pages' = kept
         /\ IF kept = <<>>
              THEN /\ log' = log \o PageMessages(all_pages, 1)
                               \o <<Msg("error", "no_content", 0)>>
                   /\ exc' = "ValueError"
                   /\ pc' = "except"
              ELSE /\ log' = log \o PageMessages(all_pages, 1)
                               \o <<Msg("info", "found_nonempty", Len(kept))>>
                   /\ exc' = exc
                   /\ pc' = "overview"
  /\ UNCHANGED <<input_file, body, dir_exists, files, elements, current_table,
                 bi, current_page_idx, ei, student_count, idx, result>>

\* Lines 113-132: compose and save the overview document.  The save succeeds
\* or raises (ok), as the file system decides.
SaveOverview ==
  /\ pc = "overview"
  /\ \E ok \in BOOLEAN :
       IF ok
         THEN /\ files' = Save(files, OverviewName, OverviewDoc)
              /\ log' = log \o << Msg("info", "creating_overview", 0),
                                  Msg("success", "saved_overview", 0) >>
              /\ student_count' = 0
              /\ idx' = 1
              /\ exc' = exc
              /\ pc' = "students"
         ELSE /\ log' = Append(log, Msg("info", "creating_overview", 0))
              /\ exc' = "OSError"
              /\ pc' = "except"
              /\ UNCHANGED <<files, student_count, idx>>
  /\ UNCHANGED <<input_file, body, dir_exists, elements, current_table, bi,
                 all_pages, current_page_idx, ei, result>>

\* Lines 133-175: one iteration of the loop over all_pages[1:].
StudentPage ==
  /\ pc = "students"
  /\ idx <= Len(all_pages) - 1
  /\ LET page == all_pages[idx + 1]
     IN  IF get_page_content(page) = <<>>
           THEN /\ log' = Append(log, Msg("info", "skipping_empty", idx))
                /\ idx' = idx + 1
                /\ UNCHANGED <<files, student_count, exc, pc>>
           ELSE \E ok \in BOOLEAN :
                  LET count == student_count + 1
                      start == << Msg("info", "processing_student", count),
                                  Msg("info", "adding_overview", 0),
                                  Msg("info", "adding_student_content", 0) >>
                  IN  /\ student_count' = count
                      /\ IF ok
                           THEN /\ files' = Save(files, StudentName(count),
                                                 StudentDoc(page))
                                /\ log' = log \o start \o
                                     <<Msg("success", "saved_student", count)>>
                                /\ idx' = idx + 1
                                /\ UNCHANGED <<exc, pc>>
                           ELSE /\ log' = log \o start
                                /\ exc' = "OSError"
                                /\ pc' = "except"
                                /\ UNCHANGED <<files, idx>>
  /\ UNCHANGED <<input_file, body, dir_exists, elements, current_table, bi,
                 all_pages, current_page_idx, ei, result>>

\* Variant: the summary reports success whatever the count is.
Summary_AlwaysSuccess ==
  /\ pc = "students"
  /\ idx > Len(all_pages) - 1
  /\ log' = log \o << Msg("success", "created_documents", student_count),
                      Msg("info", "files_in_directory", Cardinality(files)) >>
  /\ result' = <<student_count>>
  /\ pc' = "returned"
  /\ UNCHANGED <<input_file, body, dir_exists, files, elements, current_table,
                 bi, all_pages, current_page_idx, ei, student_count, idx, exc>>

\* Lines 177-185: the summary message and the returned count.
Summary ==
  /\ pc = "students"
  /\ idx > Len(all_pages) - 1
  /\ log' = IF student_count = 0
              THEN Append(log, Msg("warning", "no_student_documents", 0))
              ELSE log \o << Msg("success", "created_documents", student_count),
                             Msg("info", "files_in_directory",
                                 Cardinality(files)) >>
  /\ result' = <<student_count>>
  /\ pc' = "returned"
  /\ UNCHANGED <<input_file, body, dir_exists, files, elements, current_table,
                 bi, all_pages, current_page_idx, ei, student_count, idx, exc>>

\* Variant: a failure inside the student loop is reported and the loop goes on
\* with the next page.
ExceptHandler_SkipPage ==
  /\ pc = "except"
  /\ log' = Append(log, Msg("error", "error_processing", 0))
  /\ IF exc = "OSError" /\ student_count > 0
       THEN pc' = "students" /\ idx' = idx + 1
       ELSE pc' = "raised" /\ idx' = idx
  /\ UNCHANGED <<input_file, body, dir_exists, files, elements, current_table,
                 bi, all_pages, current_page_idx, ei, student_count,
                 result, exc>>

\* Lines 187-191: report the exception and raise it again.
ExceptHandler ==
  /\ pc = "except"
  /\ log' = Append(log, Msg("error", "error_processing", 0))
  /\ pc' = "raised"
  /\ UNCHANGED <<input_file, body, dir_exists, files, elements, current_table,
                 bi, all_pages, current_page_idx, ei, student_count, idx,
                 result, exc>>

Next ==
  \/ CheckInput
  \/ MakeDir
  \/ Load
  \/ OrderElement
  \/ OrderFinish
  \/ ScanElement
  \/ ScanFinish
  \/ Prune
  \/ SaveOverview
  \/ StudentPage
  \/ Summary
  \/ ExceptHandler

Spec == Init /\ [][Next]_vars

(***************************************************************************)
(* Vocabulary of the properties                                            *)
(***************************************************************************)
RECURSIVE Flatten(_)
Flatten(seqs) ==
  IF seqs = <<>> THEN <<>> ELSE Head(seqs) \o Flatten(Tail(seqs))

\* The items of a paragraph, run after run.
Items(runs) == Flatten(runs)

IsMarker(c) == c = "BR"

\* Some character of t is neither a space nor a marker.
Visible(t) == \E i \in 1..Len(t) : t[i] \notin {"s", "BR"}

BlockHasText(block) ==
  IF block.kind = "p" THEN Visible(Items(block.runs))
  ELSE \E i \in 1..Len(block.cells) : Visible(block.cells[i])

PageHasText(page) == \E k \in 1..Len(page) : BlockHasText(body[page[k]])

PageHasTable(page) == \E k \in 1..Len(page) : body[page[k]].kind = "tbl"

BodyHasContent == \E i \in 1..Len(body) : BlockHasText(body[i])

\* Number of page-break markers in the body.
Markers == Len(SelectSeq(Flatten([i \in 1..Len(body) |-> Items(body[i].runs)]),
                         IsMarker))

Logged(type, msg) == \E i \in 1..Len(log) : log[i].type = type /\ log[i].msg = msg

Messages(msg) == SelectSeq(log, LAMBDA m : m.msg = msg)

\* The scan has run to its end and the pages have not been pruned yet.
Scanned == pc = "prune"

\* The pages have been pruned.
Pruned == pc \in {"overview", "students", "returned"}
          \/ exc \in {"ValueError", "OSError"}

Ended == pc \in {"returned", "raised"}

StudentFiles == {f \in files : f.name.base = "Student"}

(***************************************************************************)
(* C1  Partition completeness: when the scan ends, the concatenation of    *)
(* the pages is the source body, every block once and in document order.   *)
(***************************************************************************)
C1_PartitionComplete == Scanned => Flatten(all_pages) = Positions(body)

(***************************************************************************)
(* C8  Mid-paragraph break: a paragraph with content before and after its  *)
(* page break closes the page with the content before the marker, and the  *)
(* content after the marker opens the next page.                           *)
(***************************************************************************)
FirstMarker(t) == CHOOSE i \in 1..Len(t) : t[i] = "BR" /\ \A j \in 1..(i - 1) : t[j] # "BR"

TextBefore(t) == SubSeq(t, 1, FirstMarker(t) - 1)

TextAfter(t) == SubSeq(t, FirstMarker(t) + 1, Len(t))

\* A paragraph with one page break and content on both sides of it.
MidBreak(block) ==
  /\ block.kind = "p"
  /\ Len(SelectSeq(Items(block.runs), IsMarker)) = 1
  /\ Visible(TextBefore(Items(block.runs)))
  /\ Visible(TextAfter(Items(block.runs)))

C8_MidParagraphBreak ==
  Scanned =>
    \A j \in 1..Len(all_pages) : \A k \in 1..Len(all_pages[j]) :
      LET block == body[all_pages[j][k]]
          texts == ContentList(all_pages[j])
      IN  MidBreak(block) =>
            /\ k = Len(all_pages[j])
            /\ texts[Len(texts)] = Strip(TextBefore(Items(block.runs)))
            /\ j < Len(all_pages)
            /\ ContentList(all_pages[j + 1]) # <<>>
            /\ Head(ContentList(all_pages[j + 1]))
                 = Strip(TextAfter(Items(block.runs)))

(***************************************************************************)
(* C10  Page-count bound: a body with some non-empty content and k page    *)
(* breaks keeps at least 1 and at most k+1 pages after pruning.            *)
(***************************************************************************)
C10_PageCountBound ==
  (Pruned /\ BodyHasContent) =>
     (1 <= Len(all_pages) /\ Len(all_pages) <= Markers + 1)

(***************************************************************************)
(* C3  No-break behaviour: an existing input with non-empty content and no *)
(* page break ends by returning 0, with no student document written and a  *)
(* warning about missing page breaks.                                      *)
(***************************************************************************)
C3_NoBreakReturnsZero ==
  (input_file = "ok" /\ BodyHasContent /\ Markers = 0 /\ Ended /\ exc # "OSError")
    => /\ pc = "returned"
       /\ result = <<0>>
       /\ StudentFiles = {}
       /\ Logged("warning", "no_student_documents")

(***************************************************************************)
(* C9  Empty-page pruning.                                                 *)
(* As claimed: a page is removed if and only if it has no non-whitespace   *)
(* paragraph text and no table; the kept pages keep their order.           *)
(***************************************************************************)
ParagraphHasText(page) ==
  \E k \in 1..Len(page) :
    body[page[k]].kind = "p" /\ BlockHasText(body[page[k]])

C9_PruneKeepsTables ==
  [][pc = "prune" =>
       all_pages' = SelectSeq(all_pages,
                              LAMBDA page : ParagraphHasText(page)
                                            \/ PageHasTable(page))]_vars

(***************************************************************************)
(* C9 as amended: a page is removed if and only if it has no               *)
(* non-whitespace text, neither in a paragraph nor in a table cell; a page *)
(* whose tables have only empty cells is removed; the kept pages keep      *)
(* their order.                                                            *)
(***************************************************************************)
C9_PruneByText ==
  [][pc = "prune" => all_pages' = SelectSeq(all_pages, PageHasText)]_vars

\* Pruning has removed a page that holds a table and kept another page.
C9_Witness ==
  /\ pc = "overview"
  /\ \E e \in 1..Len(elements) :
       /\ body[elements[e]].kind = "tbl"
       /\ \A j \in 1..Len(all_pages) : \A k \in 1..Len(all_pages[j]) :
            all_pages[j][k] # elements[e]

(***************************************************************************)
(* C2  Composition.                                                        *)
(* As claimed: a student document is all blocks of page 0, one page-break  *)
(* paragraph, all blocks of its page, and nothing more; the Overview       *)
(* document is the blocks of page 0.  Blocks are compared by their text;   *)
(* a paragraph that holds nothing but page breaks is the consumed marker   *)
(* and is not counted among the blocks of a page.                          *)
(***************************************************************************)
PlainText(block) ==
  IF block.kind = "p"
    THEN Para(<<SelectSeq(Items(block.runs), LAMBDA c : ~IsMarker(c))>>)
    ELSE block

MarkerOnly(block) ==
  /\ block.kind = "p"
  /\ Items(block.runs) # <<>>
  /\ \A c \in 1..Len(Items(block.runs)) : IsMarker(Items(block.runs)[c])

Blocks(page) ==
  LET kept == SelectSeq(page, LAMBDA e : ~MarkerOnly(body[e]))
  IN  [k \in 1..Len(kept) |-> PlainText(body[kept[k]])]

C2_ComposeAllBlocks ==
  \A f \in files :
    IF f.name.base = "Student"
      THEN f.doc = Blocks(all_pages[1]) \o <<Para(<< <<"BR">> >>)>>
                     \o Blocks(all_pages[f.name.n + 1])
      ELSE f.doc = Blocks(all_pages[1])

(***************************************************************************)
(* C2 as amended: a student document is, in order, the blocks of page 0    *)
(* other than paragraphs of blank text, each as plain text (a paragraph as *)
(* its text without page breaks, a table as its cell texts), then exactly  *)
(* one paragraph holding a single page break, then the blocks of its page  *)
(* taken the same way, and nothing after them; the part before the break   *)
(* equals the Overview document in every student document.                 *)
(***************************************************************************)
Plain(page) ==
  LET kept == SelectSeq(page, LAMBDA e : body[e].kind = "tbl"
                                         \/ BlockHasText(body[e]))
  IN  [k \in 1..Len(kept) |-> PlainText(body[kept[k]])]

BreakBlocks(doc) ==
  SelectSeq(doc, LAMBDA block : \E c \in 1..Len(Items(block.runs)) :
                                   IsMarker(Items(block.runs)[c]))

C2_ComposePlainText ==
  \A f \in files :
    IF f.name.base = "Student"
      THEN /\ f.doc = Plain(all_pages[1]) \o <<Para(<< <<"BR">> >>)>>
                        \o Plain(all_pages[f.name.n + 1])
           /\ Len(BreakBlocks(f.doc)) = 1
           /\ f.doc[Len(f.doc)] # Para(<< <<"BR">> >>)
           /\ \E o \in files :
                /\ o.name.base = "Overview"
                /\ o.doc = SubSeq(f.doc, 1, Len(o.doc))
                /\ f.doc[Len(o.doc) + 1] = Para(<< <<"BR">> >>)
      ELSE f.doc = Plain(all_pages[1])

\* A student document is written, and the overview page holds a blank
\* paragraph and a paragraph with text around a page break.
C2_Witness ==
  /\ StudentFiles # {}
  /\ \E k \in 1..Len(all_pages[1]) : ~BlockHasText(body[all_pages[1][k]])
  /\ \E k \in 1..Len(all_pages[1]) : MidBreak(body[all_pages[1][k]])

(***************************************************************************)
(* C4  Returned count and output set: when split_document returns n,       *)
(* exactly n student documents were written in the run, one per retained   *)
(* non-overview page (n = retained pages - 1), each under its own name,    *)
(* together with exactly one Overview document.                            *)
(***************************************************************************)
FileNames == {f.name : f \in files}

C4_ReturnedCount ==
  pc = "returned" =>
    LET n == result[1]
    IN  /\ n = Len(all_pages) - 1
        /\ Len(Messages("saved_student")) = n
        /\ Cardinality(StudentFiles) = n
        /\ Cardinality({f \in files : f.name.base = "Overview"}) = 1
        /\ Cardinality(FileNames) = n + 1
        /\ Len(Messages("saved_overview")) = 1

\* A run that returns 2 after writing two student documents.
C4_Witness ==
  /\ pc = "returned"
  /\ result = <<2>>
  /\ Cardinality(StudentFiles) = 2

(***************************************************************************)
(* C5  Per-page failures.                                                  *)
(* As claimed: when the output of one non-overview page fails, the page is *)
(* skipped, every later page is still attempted and split_document returns *)
(* the count of the pages written.                                         *)
(***************************************************************************)
\* Composing or saving the output of a non-overview page has failed.
StudentPageFailed == exc = "OSError" /\ Logged("success", "saved_overview")

C5_FailureIsSkipped ==
  (StudentPageFailed /\ Ended) =>
     /\ pc = "returned"
     /\ result = <<Cardinality(StudentFiles)>>
     /\ Len(Messages("processing_student")) = Len(all_pages) - 1

(***************************************************************************)
(* C5 as amended: a per-page failure is fatal.  When the output of one     *)
(* non-overview page fails, an error message is emitted through the        *)
(* progress channel, no later page is attempted, and split_document raises *)
(* to its caller without a count; the Overview document and the student    *)
(* documents saved before the failure stay in the output directory.        *)
(***************************************************************************)
C5_FailureAborts ==
  StudentPageFailed =>
     /\ pc \in {"except", "raised"}
     /\ result = <<>>
     /\ pc = "raised" => log[Len(log)] = Msg("error", "error_processing", 0)
     /\ Len(Messages("processing_student")) = student_count
     /\ student_count = idx
     /\ FileNames = {OverviewName}
                      \cup {[base |-> "Student", n |-> k] : k \in 1..(student_count - 1)}

\* The first of two student pages has failed and the second was never
\* attempted: the run has raised and only the Overview document remains.
C5_Witness ==
  /\ StudentPageFailed
  /\ pc = "raised"
  /\ student_count = 1
  /\ Len(all_pages) = 3

(***************************************************************************)
(* C6  Fatal conditions abort before any output: when the input is missing *)
(* or no page is non-empty, split_document emits an error message, raises, *)
(* returns no count and has written no document; for a missing input it    *)
(* has not created the output directory.                                   *)
(***************************************************************************)
C6_FatalBeforeOutput ==
  /\ [](exc \in {"FileNotFoundError", "ValueError"} =>
          /\ pc \in {"except", "raised"}
          /\ Logged("error", IF exc = "ValueError" THEN "no_content"
                                                   ELSE "input_not_found")
          /\ result = <<>>
          /\ files = {})
  /\ [][exc' = "FileNotFoundError" => dir_exists' = dir_exists /\ files' = files]_vars

\* The document holds blocks but no page with text: ValueError is raised,
\* the output directory has been created and holds no document.
C6_Witness ==
  /\ pc = "raised"
  /\ exc = "ValueError"
  /\ body # <<>>
  /\ Logged("info", "created_dir")
  /\ files = {}

(***************************************************************************)
(* C7  Output naming.                                                      *)
(* As claimed: a student file is named from the label of the page's first  *)
(* table (the name after the "Student:" cell), or Unknown_Student_n when   *)
(* the page has no label.                                                  *)
(***************************************************************************)
\* The cells after the first cell that is the label word, in the first table
\* of the page; <<>> when there is none.
LabelOf(page) ==
  LET tables == SelectSeq(page, LAMBDA e : body[e].kind = "tbl")
  IN  IF tables = <<>> THEN <<>>
      ELSE LET cells == body[Head(tables)].cells
               at    == {i \in 1..Len(cells) : Strip(cells[i]) = <<"L">>}
           IN  IF at = {} THEN <<>>
               ELSE LET first == CHOOSE i \in at : \A j \in at : i <= j
                    IN  Strip(Flatten(SubSeq(cells, first + 1, Len(cells))))

C7_NamedByLabel ==
  \A f \in StudentFiles :
    f.name.base = IF LabelOf(all_pages[f.name.n + 1]) # <<>>
                    THEN "label" ELSE "Unknown_Student"

(***************************************************************************)
(* C7 as amended: the student files are named Student_1, Student_2, ... :  *)
(* the k-th retained non-overview page is written to Student_k, whatever   *)
(* label its tables hold; the names of one run are distinct, so no suffix  *)
(* is ever appended.                                                       *)
(***************************************************************************)
C7_NamedByPosition ==
  LET saved == Messages("saved_student")
  IN  /\ {f.name : f \in StudentFiles}
           = {[base |-> "Student", n |-> k] : k \in 1..Len(saved)}
      /\ \A k \in 1..Len(saved) : saved[k].n = k
      /\ \A f \in StudentFiles :
           /\ f.name.n + 1 <= Len(all_pages)
           /\ SubSeq(f.doc, Len(f.doc) - Len(Plain(all_pages[f.name.n + 1])) + 1,
                     Len(f.doc))
                = Plain(all_pages[f.name.n + 1])

\* Two student documents are written and the page of the second one has
\* the label "Student:" | "a".
C7_Witness ==
  /\ Cardinality(StudentFiles) = 2
  /\ \E f \in StudentFiles : f.name.n = 2 /\ LabelOf(all_pages[3]) = <<"a">>

(***************************************************************************)
(* C11  Progress checkpoint ordering: 'file found' comes before any 'page  *)
(* break detected'; every page-break message comes before the Overview     *)
(* 'saved' message; for each student page i its 'processing' message comes *)
(* before its 'saved' message, and that before the 'processing' message of *)
(* page i+1; a run that returns has emitted exactly one summary message,   *)
(* after the last 'saved' message: a warning when the count is 0 and a     *)
(* success message otherwise.                                              *)
(***************************************************************************)
\* The places in the progress log of the messages msg / of msg about page n.
Places(msg) == {i \in 1..Len(log) : log[i].msg = msg}

PlacesOf(msg, n) == {i \in Places(msg) : log[i].n = n}

Before(earlier, later) ==
  later # {} => (earlier # {} /\ \A i \in earlier : \A j \in later : i < j)

C11_ProgressOrder ==
  LET summary == Places("no_student_documents") \cup Places("created_documents")
      saved   == Places("saved_overview") \cup Places("saved_student")
  IN  /\ Before(Places("found_input"), Places("page_break"))
      /\ \A i \in Places("page_break") : \A j \in Places("saved_overview") : i < j
      /\ Cardinality(Places("saved_overview")) <= 1
      /\ Before(Places("saved_overview"), Places("processing_student"))
      /\ \A i \in Places("processing_student") \cup Places("saved_student") :
           LET k == log[i].n
           IN  /\ k >= 1
               /\ Cardinality(PlacesOf("processing_student", k)) = 1
               /\ Cardinality(PlacesOf("saved_student", k)) <= 1
               /\ Before(PlacesOf("processing_student", k),
                         PlacesOf("saved_student", k))
               /\ Before(PlacesOf("saved_student", k),
                         PlacesOf("processing_student", k + 1))
      /\ pc # "returned" => summary = {}
      /\ pc = "returned" =>
           /\ Cardinality(summary) = 1
           /\ \A s \in summary :
                /\ \A j \in saved : j < s
                /\ log[s] = IF result[1] = 0
                              THEN Msg("warning", "no_student_documents", 0)
                              ELSE Msg("success", "created_documents", result[1])

\* A run over two page breaks that saved two student documents and returned
\* with the success summary.
C11_Witness ==
  /\ pc = "returned"
  /\ Len(Messages("page_break")) >= 2
  /\ Len(Messages("saved_student")) = 2
  /\ Logged("success", "created_documents")

====
